---- MODULE Spec2Model ----
(***************************************************************************)
(* A model of payload_generator/full_update_generator.cc: the ChunkProcessor *)
(* worker (Start, Wait, ReadAndCompress, ShouldCompress, the destructor) and *)
(* FullUpdateGenerator::Run, the control thread that keeps a window of       *)
(* workers in a deque, waits on the front one and emits one install          *)
(* operation per chunk, the root filesystem first and the kernel second.     *)
(***************************************************************************)
EXTENDS Integers, Sequences, FiniteSets, TLC

\* ---------------------------------------------------------------- bounds

\* The largest declared size of the root filesystem image, in bytes.
MaxRootfsSize == 5
\* The largest declared size of the kernel image, in bytes.
MaxKernelSize == 2
\* The largest value sysconf(_SC_NPROCESSORS_ONLN) returns.
MaxProcs == 4
\* The size of a root filesystem image of more than ten chunks.
LargeRootfsSize == 12

\* --------------------------------------------------- program constants

\* std::max(sysconf(_SC_NPROCESSORS_ONLN), 4L)
MinThreads == 4
\* int last_progress_update = INT_MIN
INT_MIN == -2147483647 - 1
\* for (int partition = 0; partition < 2; ++partition)
NumPartitions == 2

\* ------------------------------------------------------------ the inputs

ChunkSizes == {-1, 0, 1, 2, 3}
BlockSizes == {1, 2}
InitialDataFileSizes == {0, 1}
\* What the compression primitive does to a chunk's bytes: it fails, or its
\* output is shorter than, as long as, or longer than its input.
CompOutcomes == {"shrink", "same", "grow", "fail"}
\* How many bytes the image file may be shorter than the declared size.
Truncations == {0, 1}

VARIABLES
    config,               \* PayloadGenerationConfig: chunk_size, block_size, sizes
    image,                \* the two image files: their length, what bzip makes of each chunk
    max_threads,          \* Run's max_threads
    pc,                   \* where the control thread is in Run
    error,                \* which TEST_AND_RETURN_FALSE of Run returned false
    partition,            \* Run's loop variable
    in_fd,                \* the partition's input descriptor
    threads,              \* deque<shared_ptr<ChunkProcessor>>
    processor,            \* the popped shared_ptr<ChunkProcessor> (<<>> when none)
    bytes_left,
    counter,
    offset,
    last_progress_update,
    data_file_size,       \* *data_file_size
    entry_data_file_size, \* history: *data_file_size when Run was called
    graph,                \* *graph
    final_order,          \* *final_order
    kernel_ops,           \* *kernel_ops
    payload,              \* what WriteAll has written to fd
    log,                  \* the progress lines of LOG(INFO)
    emitted,              \* history: the chunk behind each emplace_back/resize
    waits                 \* history: every call of ChunkProcessor::Wait

vars == <<config, image, max_threads, pc, error, partition, in_fd, threads,
          processor, bytes_left, counter, offset, last_progress_update,
          data_file_size, graph, final_order, kernel_ops, payload, log,
          emitted, waits, entry_data_file_size>>

outputs == <<data_file_size, graph, final_order, kernel_ops, payload>>

\* ---------------------------------------------------------------- helpers

\* std::min that always returns its second argument.
Min_Second(a, b) == b

Min(a, b) == IF a < b THEN a ELSE b

Max(a, b) == IF a > b THEN a ELSE b

\* uint64_t part_sizes[] = { target.rootfs_size, target.kernel_size }
part_sizes(p) == IF p = 0 THEN config.rootfs_size ELSE config.kernel_size

\* ------------------------------------------------- the outside primitives

\* utils::PReadAll(fd, buf, count, offset, &bytes_read): a positioned read
\* that stops at the end of the file; false on a bad descriptor.
PReadAll(fd, p, off, count) ==
    IF fd # "open"
    THEN [ok |-> FALSE, bytes_read |-> -1]
    ELSE [ok |-> TRUE, bytes_read |-> Max(0, Min(count, image.length[p] - off))]

\* BzipCompress(in, &out): a deterministic function of the chunk's bytes.
\* The bytes of a given chunk of a given image are fixed, so the outcome is a
\* function of the image and of the chunk: image.bzip gives it for the even
\* and the odd chunks of the root filesystem (the kernel's are swapped).
BzipCompress(p, off, size) ==
    LET kind == image.bzip[((off \div config.chunk_size) + p) % 2] IN
    CASE kind = "fail"   -> [ok |-> FALSE, size |-> 0]
      [] kind = "shrink" -> [ok |-> TRUE, size |-> (size + 1) \div 2]
      [] kind = "same"   -> [ok |-> TRUE, size |-> size]
      [] OTHER           -> [ok |-> TRUE, size |-> size + 1]

\* --------------------------------------------------------- ChunkProcessor

\* ChunkProcessor(int fd, off_t offset, size_t size)
ChunkProcessor(off, size) ==
    [offset |-> off, buffer_in |-> size, buffer_compressed |-> 0,
     thread |-> "null", result |-> FALSE]

\* ShouldCompress with <= for <.
ShouldCompress_OrEqual(w) == w.buffer_compressed <= w.buffer_in

\* bool ShouldCompress() const
ShouldCompress(w) == w.buffer_compressed < w.buffer_in

\* ReadAndCompress without the check of bytes_read against the buffer's size.
ReadAndCompress_NoLengthCheck(w, fd, p) ==
    LET rd == PReadAll(fd, p, w.offset, w.buffer_in)
        bz == BzipCompress(p, w.offset, w.buffer_in)
    IN  IF ~rd.ok \/ ~bz.ok
        THEN [w EXCEPT !.thread = "exited", !.result = FALSE]
        ELSE [w EXCEPT !.thread = "exited", !.result = TRUE,
                       !.buffer_compressed = bz.size]

\* bool ChunkProcessor::ReadAndCompress(), run by ReadAndCompressThread: the
\* worker with its buffers filled and the thread's return value.
ReadAndCompress(w, fd, p) ==
    LET rd == PReadAll(fd, p, w.offset, w.buffer_in)
        bz == BzipCompress(p, w.offset, w.buffer_in)
    IN  IF ~rd.ok \/ rd.bytes_read # w.buffer_in
        THEN [w EXCEPT !.thread = "exited", !.result = FALSE]
        ELSE IF ~bz.ok
        THEN [w EXCEPT !.thread = "exited", !.result = FALSE]
        ELSE [w EXCEPT !.thread = "exited", !.result = TRUE,
                       !.buffer_compressed = bz.size]

\* bool ChunkProcessor::Wait(): what it returns, once g_thread_join returns.
WaitResult(w) == IF w.thread = "null" THEN FALSE ELSE w.result

\* Wait that leaves thread_ set after the join.
WaitEffect_KeepThread(w) == w

\* bool ChunkProcessor::Wait(): the worker afterwards.
WaitEffect(w) == [w EXCEPT !.thread = "null"]

\* g_thread_join blocks until the thread has exited.
CanWait(w) == w.thread # "running"

\* One entry of the history of Wait calls.
WaitRecord(w, who) ==
    [partition |-> partition, offset |-> w.offset, caller |-> who,
     joined |-> (w.thread # "null"), result |-> WaitResult(w)]


\* ------------------------------------------------------------------- Run

\* A default-constructed DeltaArchiveManifest_InstallOperation.
DefaultOp ==
    [type |-> "UNSET", has_data_offset |-> FALSE, data_offset |-> 0,
     has_data_length |-> FALSE, data_length |-> 0, dst_extents |-> <<>>]

\* base::StringPrintf("<rootfs-operation-%" PRIi64 ">", counter++)
file_name(n) == <<"<rootfs-operation-", n, ">">>

\* size_t max_threads = std::max(sysconf(_SC_NPROCESSORS_ONLN), 4L)
MaxThreads(nproc) == Max(nproc, MinThreads)

\* The chunk_size check with >= for >.
ChunkSizeOk_NonNegative(c) == c.chunk_size >= 0

\* TEST_AND_RETURN_FALSE(config.chunk_size > 0)
ChunkSizeOk(c) == c.chunk_size > 0

\* The outer loop's condition without the queue: it ends with workers in it.
LoopCond_BytesOnly(left, q) == left > 0

\* The outer loop's condition with >= for >.
LoopCond_BytesNonNeg(left, q) == left >= 0 \/ q # <<>>

\* while (bytes_left > 0 || !threads.empty())
LoopCond(left, q) == left > 0 \/ q # <<>>

\* The inner loop's condition with <= for <: one worker too many.
CanStart_Inclusive(n, left) == n <= max_threads /\ left > 0

\* The inner loop's condition with >= for >: a chunk past the end.
CanStart_ZeroLeft(n, left) == n < max_threads /\ left >= 0

\* while (threads.size() < max_threads && bytes_left > 0)
CanStart(n, left) == n < max_threads /\ left > 0

\* The first worker that has finished, instead of the front one.
front_FirstFinished(q) ==
    IF \E i \in 1..Len(q) : q[i].thread = "exited"
    THEN q[CHOOSE i \in 1..Len(q) :
              /\ q[i].thread = "exited"
              /\ \A j \in 1..(i - 1) : q[j].thread # "exited"]
    ELSE q[1]

\* back() for front().
front_Back(q) == q[Len(q)]

\* threads.front()
front(q) == q[1]

\* threads.pop_front()
pop_front(q) == Tail(q)

\* The control thread after an iteration of the outer loop, or before the
\* first: back to the inner loop, or out of the partition's scope.
AfterIteration(left, q) == IF LoopCond(left, q) THEN "Inner" ELSE "EndPart"

\* const chromeos::Blob& use_buf =
\*     compress ? processor->buffer_compressed() : processor->buffer_in()
use_buf(w) == IF ShouldCompress(w) THEN w.buffer_compressed ELSE w.buffer_in

\* op->set_type(compress ? ..._REPLACE_BZ : ..._REPLACE)
OpType(w) == IF ShouldCompress(w) THEN "REPLACE_BZ" ELSE "REPLACE"

\* The cursor advanced by the nominal chunk size.
AdvanceDataFileSize_Nominal(size, w) == size + config.chunk_size

\* The cursor advanced by the raw length instead of the written length.
AdvanceDataFileSize_Raw(size, w) == size + w.buffer_in

\* *data_file_size += use_buf.size()
AdvanceDataFileSize(size, w) == size + use_buf(w)

\* start_block as the chunk's index instead of its first block.
start_block_ChunkIndex(w) == w.offset \div config.chunk_size

\* dst_extent->set_start_block(processor->offset() / config.block_size)
start_block(w) == w.offset \div config.block_size

\* The quotient taken the wrong way round.
num_blocks_Inverted == config.block_size \div config.chunk_size

\* dst_extent->set_num_blocks(config.chunk_size / config.block_size)
num_blocks == config.chunk_size \div config.block_size

\* graph->size() for graph->size() - 1.
NewVertexIndex_Size(g) == Len(g)

\* final_order->push_back(graph->size() - 1), after the emplace_back
NewVertexIndex(g) == Len(g) - 1

\* int progress = static_cast<int>((offset + buffer_in().size()) * 100.0 / part_sizes[partition])
Progress(w) == ((w.offset + w.buffer_in) * 100) \div part_sizes(partition)

\* The progress condition without the step of 10: every increase is reported.
ShouldReport_EveryIncrease(last, progress) == last < progress

\* if (last_progress_update < progress &&
\*     (last_progress_update + 10 <= progress || progress == 100))
ShouldReport(last, progress) ==
    last < progress /\ (last + 10 <= progress \/ progress = 100)

Configs ==
    [chunk_size : ChunkSizes, block_size : BlockSizes,
     rootfs_size : 0..MaxRootfsSize, kernel_size : 0..MaxKernelSize]

Lengths(size) == {size - t : t \in {u \in Truncations : u <= size}}

Init ==
    /\ config \in Configs
    /\ \E l0 \in Lengths(config.rootfs_size), l1 \in Lengths(config.kernel_size),
          bz \in [0..1 -> CompOutcomes] :
          image = [length |-> (0 :> l0) @@ (1 :> l1), bzip |-> bz]
    /\ max_threads \in {MaxThreads(n) : n \in 1..MaxProcs}
    /\ pc = "Validating"
    /\ error = "none"
    /\ partition = 0
    /\ in_fd = "closed"
    /\ threads = <<>>
    /\ processor = <<>>
    /\ bytes_left = 0
    /\ counter = 0
    /\ offset = 0
    /\ last_progress_update = INT_MIN
    /\ data_file_size \in InitialDataFileSizes
    /\ entry_data_file_size = data_file_size
    /\ graph = <<>>
    /\ final_order = <<>>
    /\ kernel_ops = <<>>
    /\ payload = <<>>
    /\ log = <<>>
    /\ emitted = <<>>
    /\ waits = <<>>

\* TEST_AND_RETURN_FALSE(config.Validate()); TEST_AND_RETURN_FALSE(config.chunk_size > 0)
Validate ==
    /\ pc = "Validating"
    /\ \E valid \in BOOLEAN :
          IF valid /\ ChunkSizeOk(config)
          THEN pc' = "Open" /\ error' = error
          ELSE pc' = "Failed" /\ error' = "config"
    /\ UNCHANGED <<config, image, entry_data_file_size, max_threads, partition, in_fd, threads,
                   processor, bytes_left, counter, offset, last_progress_update,
                   data_file_size, graph, final_order, kernel_ops, payload, log,
                   emitted, waits>>

\* int in_fd = open(path.c_str(), O_RDONLY, 0); TEST_AND_RETURN_FALSE(in_fd >= 0);
\* then the partition's locals.
OpenPartition ==
    /\ pc = "Open"
    /\ \E opened \in BOOLEAN :
          IF opened
          THEN /\ in_fd' = "open"
               /\ threads' = <<>>
               /\ last_progress_update' = INT_MIN
               /\ bytes_left' = part_sizes(partition)
               /\ counter' = 0
               /\ offset' = 0
               /\ pc' = AfterIteration(part_sizes(partition), <<>>)
               /\ error' = error
          ELSE /\ pc' = "Failed"
               /\ error' = "open"
               /\ UNCHANGED <<in_fd, threads, last_progress_update, bytes_left,
                              counter, offset>>
    /\ UNCHANGED <<config, image, entry_data_file_size, max_threads, partition, processor,
                   data_file_size, graph, final_order, kernel_ops, payload, log,
                   emitted, waits>>

\* One turn of the inner loop: a new ChunkProcessor is pushed and started.
\* g_thread_try_new may fail, and Run then returns false.
StartProcessor ==
    /\ pc = "Inner"
    /\ CanStart(Len(threads), bytes_left)
    /\ LET w == ChunkProcessor(offset, Min(bytes_left, config.chunk_size)) IN
       \E started \in BOOLEAN :
          IF started
          THEN /\ threads' = Append(threads, [w EXCEPT !.thread = "running"])
               /\ bytes_left' = bytes_left - config.chunk_size
               /\ offset' = offset + config.chunk_size
               /\ UNCHANGED <<pc, error>>
          ELSE /\ threads' = Append(threads, w)
               /\ pc' = "Unwind"
               /\ error' = "start"
               /\ UNCHANGED <<bytes_left, offset>>
    /\ UNCHANGED <<config, image, entry_data_file_size, max_threads, partition, in_fd, processor,
                   counter, last_progress_update, data_file_size, graph,
                   final_order, kernel_ops, payload, log, emitted, waits>>

\* shared_ptr<ChunkProcessor> processor = threads.front(); threads.pop_front();
\* front() of an empty deque is undefined.
PopFront ==
    /\ pc = "Inner"
    /\ ~CanStart(Len(threads), bytes_left)
    /\ IF threads = <<>>
       THEN pc' = "Undefined" /\ UNCHANGED <<processor, threads>>
       ELSE /\ processor' = <<front(threads)>>
            /\ threads' = pop_front(threads)
            /\ pc' = "Wait"
    /\ UNCHANGED <<config, image, entry_data_file_size, max_threads, error, partition, in_fd,
                   bytes_left, counter, offset, last_progress_update,
                   data_file_size, graph, final_order, kernel_ops, payload, log,
                   emitted, waits>>

\* A worker thread runs ReadAndCompress to its end.
WorkerRun ==
    /\ \/ \E i \in 1..Len(threads) :
             /\ threads[i].thread = "running"
             /\ threads' = [threads EXCEPT
                              ![i] = ReadAndCompress(threads[i], in_fd, partition)]
             /\ UNCHANGED processor
       \/ /\ processor # <<>>
          /\ processor[1].thread = "running"
          /\ processor' = <<ReadAndCompress(processor[1], in_fd, partition)>>
          /\ UNCHANGED threads
    /\ UNCHANGED <<config, image, entry_data_file_size, max_threads, pc, error, partition, in_fd,
                   bytes_left, counter, offset, last_progress_update,
                   data_file_size, graph, final_order, kernel_ops, payload, log,
                   emitted, waits>>

\* TEST_AND_RETURN_FALSE(processor->Wait())
WaitFront ==
    /\ pc = "Wait"
    /\ CanWait(processor[1])
    /\ waits' = Append(waits, WaitRecord(processor[1], "Run"))
    /\ processor' = <<WaitEffect(processor[1])>>
    /\ IF WaitResult(processor[1])
       THEN pc' = "Emit" /\ error' = error
       ELSE pc' = "Unwind" /\ error' = "wait"
    /\ UNCHANGED <<config, image, entry_data_file_size, max_threads, partition, in_fd, threads,
                   bytes_left, counter, offset, last_progress_update,
                   data_file_size, graph, final_order, kernel_ops, payload, log,
                   emitted>>


\* What a chunk's bytes in the payload stream are: which buffer, how much of it.
PayloadRecord(w, n) ==
    [partition |-> partition, offset |-> w.offset,
     compressed |-> ShouldCompress(w), bytes |-> n]

\* The history entry of the chunk an operation is built from.
EmittedRecord(w, ok) ==
    [partition |-> partition, offset |-> w.offset, buffer_in |-> w.buffer_in,
     buffer_compressed |-> w.buffer_compressed, result |-> w.result,
     written |-> ok]

\* op->set_type(...); op->set_data_offset(*data_file_size);
OpBeforeWrite(w) ==
    [DefaultOp EXCEPT !.type = OpType(w),
                      !.has_data_offset = TRUE, !.data_offset = data_file_size]

\* op->set_data_length(use_buf.size()); Extent* dst_extent = op->add_dst_extents(); ...
OpAfterWrite(w) ==
    [OpBeforeWrite(w) EXCEPT
        !.has_data_length = TRUE, !.data_length = use_buf(w),
        !.dst_extents = <<[start_block |-> start_block(w),
                           num_blocks |-> num_blocks]>>]

\* graph->emplace_back(); graph->back().file_name = ...; op = &graph->back().op;
EmplaceVertex(g, n, op) == Append(g, [file_name |-> file_name(n), op |-> op])

\* The body of the outer loop after a successful Wait: the operation record,
\* the write to the payload, the progress line, and the end of the iteration,
\* where the popped shared_ptr goes out of scope and ~ChunkProcessor calls
\* Wait() again. utils::WriteAll may fail, and Run then returns false with
\* the record half filled.
Emit ==
    /\ pc = "Emit"
    /\ LET w == processor[1] IN
       \E wrote \in BOOLEAN :
          LET op == IF wrote THEN OpAfterWrite(w) ELSE OpBeforeWrite(w) IN
          /\ emitted' = Append(emitted, EmittedRecord(w, wrote))
          /\ IF partition = 0
             THEN /\ graph' = EmplaceVertex(graph, counter, op)
                  /\ counter' = counter + 1
                  /\ final_order' = Append(final_order, NewVertexIndex(graph'))
                  /\ UNCHANGED kernel_ops
             ELSE /\ kernel_ops' = Append(kernel_ops, op)
                  /\ UNCHANGED <<graph, counter, final_order>>
          /\ IF wrote
             THEN /\ payload' = Append(payload, PayloadRecord(w, use_buf(w)))
                  /\ data_file_size' = AdvanceDataFileSize(data_file_size, w)
                  /\ IF ShouldReport(last_progress_update, Progress(w))
                     THEN /\ log' = Append(log, [partition |-> partition,
                                                 progress |-> Progress(w)])
                          /\ last_progress_update' = Progress(w)
                     ELSE UNCHANGED <<log, last_progress_update>>
                  /\ waits' = Append(waits, WaitRecord(w, "destructor"))
                  /\ processor' = <<>>
                  /\ pc' = AfterIteration(bytes_left, threads)
                  /\ error' = error
             ELSE /\ \E n \in {0, use_buf(w) - 1} :
                        payload' = IF n = 0 THEN payload
                                   ELSE Append(payload, PayloadRecord(w, n))
                  /\ pc' = "Unwind"
                  /\ error' = "write"
                  /\ UNCHANGED <<data_file_size, log, last_progress_update,
                                 waits, processor>>
    /\ UNCHANGED <<config, image, entry_data_file_size, max_threads, partition, in_fd, threads,
                   bytes_left, offset>>

\* Run returns false inside the partition's scope: the popped shared_ptr is
\* destroyed first, and ~ChunkProcessor joins its thread.
DestroyProcessor ==
    /\ pc = "Unwind"
    /\ processor # <<>>
    /\ CanWait(processor[1])
    /\ waits' = Append(waits, WaitRecord(processor[1], "destructor"))
    /\ processor' = <<>>
    /\ UNCHANGED <<config, image, entry_data_file_size, max_threads, pc, error, partition, in_fd,
                   threads, bytes_left, counter, offset, last_progress_update,
                   data_file_size, graph, final_order, kernel_ops, payload, log,
                   emitted>>

\* The deque dropped without its workers being joined.
DestroyQueued_Abandon ==
    /\ pc = "Unwind"
    /\ processor = <<>>
    /\ threads # <<>>
    /\ threads' = <<>>
    /\ UNCHANGED <<config, image, entry_data_file_size, max_threads, pc, error,
                   partition, in_fd, processor, bytes_left, counter, offset,
                   last_progress_update, data_file_size, graph, final_order,
                   kernel_ops, payload, log, emitted, waits>>

\* ... then the deque, element by element from the front, each destructor
\* joining its thread.
DestroyQueued ==
    /\ pc = "Unwind"
    /\ processor = <<>>
    /\ threads # <<>>
    /\ CanWait(front(threads))
    /\ waits' = Append(waits, WaitRecord(front(threads), "destructor"))
    /\ threads' = pop_front(threads)
    /\ UNCHANGED <<config, image, entry_data_file_size, max_threads, pc, error, partition, in_fd,
                   processor, bytes_left, counter, offset, last_progress_update,
                   data_file_size, graph, final_order, kernel_ops, payload, log,
                   emitted>>

\* ... then ScopedFdCloser closes in_fd, and Run has returned false.
ReturnFalse ==
    /\ pc = "Unwind"
    /\ processor = <<>>
    /\ threads = <<>>
    /\ in_fd' = "closed"
    /\ pc' = "Failed"
    /\ UNCHANGED <<config, image, entry_data_file_size, max_threads, error, partition, threads,
                   processor, bytes_left, counter, offset, last_progress_update,
                   data_file_size, graph, final_order, kernel_ops, payload, log,
                   emitted, waits>>

\* The outer loop ends: the partition's locals go out of scope (the deque is
\* empty, ScopedFdCloser closes in_fd), ++partition, and after the second
\* partition Run returns true.
EndPartition ==
    /\ pc = "EndPart"
    /\ in_fd' = "closed"
    /\ partition' = partition + 1
    /\ pc' = IF partition + 1 < NumPartitions THEN "Open" ELSE "Done"
    /\ UNCHANGED <<config, image, entry_data_file_size, max_threads, error, threads, processor,
                   bytes_left, counter, offset, last_progress_update,
                   data_file_size, graph, final_order, kernel_ops, payload, log,
                   emitted, waits>>

Next ==
    \/ Validate
    \/ OpenPartition
    \/ StartProcessor
    \/ PopFront
    \/ WorkerRun
    \/ WaitFront
    \/ Emit
    \/ DestroyProcessor
    \/ DestroyQueued
    \/ ReturnFalse
    \/ EndPartition

Spec == Init /\ [][Next]_vars


\* The steps of the thread that runs Run.
Control ==
    \/ Validate
    \/ OpenPartition
    \/ StartProcessor
    \/ PopFront
    \/ WaitFront
    \/ Emit
    \/ DestroyProcessor
    \/ DestroyQueued
    \/ ReturnFalse
    \/ EndPartition

\* Run keeps being scheduled, and every started worker thread runs to its end.
FairSpec == Spec /\ WF_vars(Control) /\ WF_vars(WorkerRun)

\* Run on a root filesystem of more than ten chunks, which compression
\* leaves as long as they are.
InitLarge ==
    /\ config \in [chunk_size : {1, 5}, block_size : {1},
                   rootfs_size : {LargeRootfsSize}, kernel_size : 0..MaxKernelSize]
    /\ \E l0 \in Lengths(config.rootfs_size), l1 \in Lengths(config.kernel_size) :
          image = [length |-> (0 :> l0) @@ (1 :> l1),
                   bzip |-> [i \in 0..1 |-> "same"]]
    /\ max_threads \in {MaxThreads(n) : n \in 1..MaxProcs}
    /\ pc = "Validating"
    /\ error = "none"
    /\ partition = 0
    /\ in_fd = "closed"
    /\ threads = <<>>
    /\ processor = <<>>
    /\ bytes_left = 0
    /\ counter = 0
    /\ offset = 0
    /\ last_progress_update = INT_MIN
    /\ data_file_size = 0
    /\ entry_data_file_size = data_file_size
    /\ graph = <<>>
    /\ final_order = <<>>
    /\ kernel_ops = <<>>
    /\ payload = <<>>
    /\ log = <<>>
    /\ emitted = <<>>
    /\ waits = <<>>

SpecLarge == InitLarge /\ [][Next]_vars

\* ------------------------------------------------------------ the claims

\* The history entries of partition p, in emission order.
EmittedOf(p) == SelectSeq(emitted, LAMBDA e : e.partition = p)

\* The operation records of partition p, in emission order.
Ops(p) == IF p = 0 THEN [i \in 1..Len(graph) |-> graph[i].op] ELSE kernel_ops

\* The workers whose thread was started and is not yet joined.
StartedNotJoined ==
    Len(SelectSeq(threads \o processor, LAMBDA w : w.thread # "null"))

\* The declared size is a whole number of chunks.
ExactMultiple(size) == config.chunk_size > 0 /\ size % config.chunk_size = 0

\* C1: for each partition the k-th emitted operation is built from the chunk
\* at source offset k * chunk_size (k from 0), whatever order the workers
\* finish in.
C1_EmissionInOffsetOrder ==
    \A p \in 0..1 : \A k \in 1..Len(EmittedOf(p)) :
        EmittedOf(p)[k].offset = (k - 1) * config.chunk_size

\* C1's case: two chunks are emitted while a later worker of the queue has
\* finished before an earlier one.
C1_Witness ==
    /\ Len(emitted) >= 2
    /\ \E i, j \in 1..Len(threads) :
          i < j /\ threads[i].thread = "running" /\ threads[j].thread = "exited"

\* C2: the workers started and not yet joined, in the queue or popped and
\* being waited on, are never more than max_threads.
C2_AtMostMaxThreadsInFlight == StartedNotJoined <= max_threads

\* C2's case: the window is full, one of its workers popped and waited on.
C2_Witness ==
    /\ pc = "Wait"
    /\ processor[1].thread = "running"
    /\ Len(threads) = max_threads - 1
    /\ StartedNotJoined = max_threads

\* C3: consecutive operations of a partition are contiguous in the payload,
\* and their data_offset values strictly increase.
C3_DataOffsetsContiguous ==
    \A p \in 0..1 : \A i \in 1..(Len(Ops(p)) - 1) :
        /\ Ops(p)[i].data_offset + Ops(p)[i].data_length = Ops(p)[i + 1].data_offset
        /\ Ops(p)[i].data_offset < Ops(p)[i + 1].data_offset

\* C3's case: three operations of the root filesystem, one of them compressed
\* and one not.
C3_Witness ==
    /\ Len(graph) >= 3
    /\ graph[1].op.type # graph[2].op.type
    /\ graph[3].op.has_data_length

\* C4: with partition sizes that are whole numbers of chunks, a run that
\* reaches Done has emitted partition_size / chunk_size operations for each
\* partition, one for each chunk.
C4_OneOperationPerChunk ==
    (pc = "Done" /\ ExactMultiple(config.rootfs_size) /\ ExactMultiple(config.kernel_size))
    => /\ Len(graph) = config.rootfs_size \div config.chunk_size
       /\ Len(kernel_ops) = config.kernel_size \div config.chunk_size
       /\ \A p \in 0..1 :
             /\ Len(EmittedOf(p)) = part_sizes(p) \div config.chunk_size
             /\ \A k \in 0..((part_sizes(p) \div config.chunk_size) - 1) :
                   Cardinality({i \in 1..Len(EmittedOf(p)) :
                                   EmittedOf(p)[i].offset = k * config.chunk_size}) = 1

\* C4's case: a finished run over several chunks of both partitions.
C4_Witness ==
    /\ pc = "Done"
    /\ ExactMultiple(config.rootfs_size) /\ ExactMultiple(config.kernel_size)
    /\ Len(graph) >= 3
    /\ Len(kernel_ops) >= 2

\* C5: every fully emitted operation has one destination extent, which
\* starts at block chunk_offset / block_size and is chunk_size / block_size
\* blocks long.
C5_DestinationExtent ==
    \A p \in 0..1 : \A i \in 1..Len(EmittedOf(p)) :
        EmittedOf(p)[i].written
        => /\ Len(Ops(p)[i].dst_extents) = 1
           /\ Ops(p)[i].dst_extents[1].start_block
                 = EmittedOf(p)[i].offset \div config.block_size
           /\ Ops(p)[i].dst_extents[1].num_blocks
                 = config.chunk_size \div config.block_size

\* C5's case: an operation of a chunk that does not start at block 0, with
\* blocks smaller than chunks.
C5_Witness ==
    /\ config.block_size < config.chunk_size
    /\ Len(graph) >= 2
    /\ graph[2].op.dst_extents # <<>>
    /\ graph[2].op.dst_extents[1].start_block = 2

\* C6: final_order is 0, 1, ..., n-1 for the n vertices of the graph, the
\* i-th vertex is labelled <rootfs-operation-i> and is the one of the i-th
\* chunk of the root filesystem; the kernel's chunks add no vertex and no
\* final_order entry.
C6_FinalOrderIsInsertionOrder ==
    /\ Len(final_order) = Len(graph)
    /\ Len(graph) = Len(EmittedOf(0))
    /\ Len(kernel_ops) = Len(EmittedOf(1))
    /\ \A i \in 1..Len(graph) :
          /\ final_order[i] = i - 1
          /\ graph[final_order[i] + 1].file_name = <<"<rootfs-operation-", i - 1, ">">>
          /\ graph[final_order[i] + 1].op.type
                = IF EmittedOf(0)[i].buffer_compressed < EmittedOf(0)[i].buffer_in
                  THEN "REPLACE_BZ" ELSE "REPLACE"

\* C6's case: vertices of the root filesystem, then operations of the kernel.
C6_Witness == Len(graph) >= 2 /\ Len(kernel_ops) >= 1

\* C7: an operation is of the compressed kind exactly when the compressed
\* buffer is strictly smaller than the raw one, and its data_length is the
\* length of the buffer chosen, the smaller of the two.
C7_CompressedOnlyWhenSmaller ==
    \A p \in 0..1 : \A i \in 1..Len(EmittedOf(p)) :
        LET e == EmittedOf(p)[i]
            op == Ops(p)[i]
        IN  /\ (op.type = "REPLACE_BZ") <=> (e.buffer_compressed < e.buffer_in)
            /\ op.type \in {"REPLACE_BZ", "REPLACE"}
            /\ e.written =>
                  /\ op.data_length = Min(e.buffer_compressed, e.buffer_in)
                  /\ (e.buffer_compressed >= e.buffer_in
                        => op.type = "REPLACE" /\ op.data_length = e.buffer_in)

\* C7's case: a chunk that compression shrinks and one it leaves as long.
C7_Witness ==
    \E i, j \in 1..Len(emitted) :
        /\ emitted[i].written /\ emitted[j].written
        /\ emitted[i].buffer_compressed < emitted[i].buffer_in
        /\ emitted[j].buffer_compressed = emitted[j].buffer_in


\* The chunk of partition p at offset off cannot be read in full (the image
\* file ends before its last byte) or cannot be compressed.
Faulty(p, off) ==
    LET size == Min(part_sizes(p) - off, config.chunk_size) IN
    \/ PReadAll("open", p, off, size).bytes_read < size
    \/ ~BzipCompress(p, off, size).ok

\* The chunks of partition p at offsets up to off.
ChunksUpTo(off) == {k * config.chunk_size : k \in 0..(off \div config.chunk_size)}

C8_State ==
    /\ \A i \in 1..Len(waits) :
          (waits[i].caller = "Run" /\ Faulty(waits[i].partition, waits[i].offset))
          => /\ ~waits[i].result
             /\ pc \in {"Unwind", "Failed"}
             /\ error = "wait"
             /\ \A j \in (i + 1)..Len(waits) : waits[j].caller # "Run"
    /\ \A i \in 1..Len(emitted) :
          \A off \in ChunksUpTo(emitted[i].offset) : ~Faulty(emitted[i].partition, off)
    /\ \A i \in 1..Len(payload) :
          \A off \in ChunksUpTo(payload[i].offset) : ~Faulty(payload[i].partition, off)
    /\ Len(graph) = Len(EmittedOf(0))
    /\ Len(final_order) = Len(EmittedOf(0))
    /\ Len(kernel_ops) = Len(EmittedOf(1))

C8_Frame ==
    (pc \in {"Unwind", "Failed"} /\ error = "wait")
    => UNCHANGED <<data_file_size, graph, final_order, kernel_ops, payload, emitted>>

\* C8: the Wait on a worker whose read came short or whose compression failed
\* fails and Run returns false; no operation, vertex, final_order entry or
\* payload bytes exist for that chunk or a chunk at a higher offset, and what
\* was emitted before stays as it is.
C8_FailedChunkEmitsNothing == []C8_State /\ [][C8_Frame]_vars

\* C8's case: Run has returned false on the Wait of a chunk the truncated
\* root filesystem image cannot fill, after emitting the chunks before it.
C8_Witness ==
    /\ pc = "Failed"
    /\ error = "wait"
    /\ image.length[0] < config.rootfs_size
    /\ image.bzip[0] # "fail" /\ image.bzip[1] # "fail"
    /\ Len(graph) >= 2

\* C9: a second Wait() on a worker whose first Wait() succeeded returns
\* success again, without joining or running the worker again.
C9_WaitIdempotent ==
    \A i, j \in 1..Len(waits) :
        (/\ i < j
         /\ waits[i].partition = waits[j].partition
         /\ waits[i].offset = waits[j].offset
         /\ waits[i].result)
        => waits[j].result /\ ~waits[j].joined

C10_Step ==
    (pc = "Validating" /\ (config.chunk_size <= 0 \/ error' = "config"))
    => /\ pc' = "Failed"
       /\ error' = "config"
       /\ UNCHANGED <<in_fd, threads, processor, data_file_size, graph,
                      final_order, kernel_ops, payload, log, emitted, waits>>

C10_State ==
    error = "config"
    => /\ pc = "Failed"
       /\ in_fd = "closed"
       /\ threads = <<>> /\ processor = <<>> /\ waits = <<>>
       /\ graph = <<>> /\ final_order = <<>> /\ kernel_ops = <<>>
       /\ payload = <<>> /\ emitted = <<>> /\ log = <<>>

\* C10: when config.Validate() fails or chunk_size <= 0, Run goes from
\* Validating straight to Failed: no image is opened, no worker started,
\* nothing written, and data_file_size, graph, final_order and kernel_ops
\* are as they were.
C10_ConfigErrorHasNoEffect == []C10_State /\ [][C10_Step]_vars

\* C10's case: Run has returned false on a chunk_size of 0 or less, with a
\* payload cursor that was not 0.
C10_Witness ==
    /\ pc = "Failed"
    /\ error = "config"
    /\ config.chunk_size <= 0
    /\ data_file_size = 1


\* The offsets of the chunks of partition p.
ChunkOffsets(p) ==
    IF config.chunk_size > 0
    THEN {off \in 0..(part_sizes(p) - 1) : off % config.chunk_size = 0}
    ELSE {}

\* The offsets of the chunks of partition p whose thread Start() has created:
\* all of a partition Run is through with, those below offset in the
\* partition it is in, none before the partition's locals exist.
StartedOffsets(p) ==
    IF pc = "Validating" \/ error = "config" THEN {}
    ELSE IF p < partition THEN ChunkOffsets(p)
    ELSE IF p = partition /\ pc # "Open" /\ error # "open"
    THEN {off \in ChunkOffsets(p) : off < offset}
    ELSE {}

\* The calls of Wait that joined the thread of the chunk of p at off.
JoinsOf(p, off) ==
    {i \in 1..Len(waits) :
        waits[i].partition = p /\ waits[i].offset = off /\ waits[i].joined}

\* Run returned false from the scheduler loop.
SchedulerFailure == error \in {"start", "wait", "write"}

\* C11 as stated: after a scheduler failure Run has returned false without
\* waiting for the workers still in flight: no destructor joined a thread.
C11_AbandonsInFlightWorkers ==
    (pc = "Failed" /\ SchedulerFailure)
    => \A i \in 1..Len(waits) : waits[i].caller = "destructor" => ~waits[i].joined

C11_State ==
    (pc = "Failed" /\ SchedulerFailure)
    => /\ threads = <<>>
       /\ processor = <<>>
       /\ \A off \in StartedOffsets(partition) :
             Cardinality(JoinsOf(partition, off)) = 1

C11_Step ==
    pc = "Unwind"
    => UNCHANGED <<data_file_size, graph, final_order, kernel_ops, payload,
                   emitted, log>>

\* C11, amended: after a scheduler failure Run emits nothing more and uses
\* no result of the workers still in flight, but it returns false only after
\* the destructors of its locals have joined every one of them.
C11_FailureJoinsAndDiscards == []C11_State /\ [][C11_Step]_vars

\* C11's case: Start() failed with workers in flight, and Run has returned
\* false after its destructors joined two of them.
C11_Witness ==
    /\ pc = "Failed"
    /\ error = "start"
    /\ Cardinality({i \in 1..Len(waits) :
                       waits[i].caller = "destructor" /\ waits[i].joined}) >= 2


\* The outputs of a successful run as a function of its inputs alone (config,
\* image, the cursor on entry), computed chunk by chunk in offset order.
RefSize(p, off) ==
    IF part_sizes(p) - off < config.chunk_size
    THEN part_sizes(p) - off ELSE config.chunk_size

RefCompressed(p, off) == BzipCompress(p, off, RefSize(p, off)).size

RefLength(p, off) ==
    IF RefCompressed(p, off) < RefSize(p, off)
    THEN RefCompressed(p, off) ELSE RefSize(p, off)

RefOp(p, off, cursor) ==
    [type |-> IF RefCompressed(p, off) < RefSize(p, off)
              THEN "REPLACE_BZ" ELSE "REPLACE",
     has_data_offset |-> TRUE, data_offset |-> cursor,
     has_data_length |-> TRUE, data_length |-> RefLength(p, off),
     dst_extents |-> <<[start_block |-> off \div config.block_size,
                        num_blocks |-> config.chunk_size \div config.block_size]>>]

RECURSIVE RefOps(_, _, _)
RefOps(p, off, cursor) ==
    IF off >= part_sizes(p) THEN <<>>
    ELSE <<RefOp(p, off, cursor)>>
         \o RefOps(p, off + config.chunk_size, cursor + RefLength(p, off))

RECURSIVE RefPayload(_, _)
RefPayload(p, off) ==
    IF off >= part_sizes(p) THEN <<>>
    ELSE <<[partition |-> p, offset |-> off,
            compressed |-> RefCompressed(p, off) < RefSize(p, off),
            bytes |-> RefLength(p, off)]>>
         \o RefPayload(p, off + config.chunk_size)

RECURSIVE RefCursor(_, _, _)
RefCursor(p, off, cursor) ==
    IF off >= part_sizes(p) THEN cursor
    ELSE RefCursor(p, off + config.chunk_size, cursor + RefLength(p, off))

RefGraph ==
    LET ops == RefOps(0, 0, entry_data_file_size) IN
    [i \in 1..Len(ops) |->
        [file_name |-> <<"<rootfs-operation-", i - 1, ">">>, op |-> ops[i]]]

\* C12: a successful run's payload, final data_file_size, Graph, FinalOrder
\* and KernelOperations are a function of the image, the config and the
\* cursor on entry: no interleaving or completion order of the workers
\* changes them.
C12_OutputsDeterminedByInputs ==
    pc = "Done"
    => /\ graph = RefGraph
       /\ final_order = [i \in 1..Len(RefGraph) |-> i - 1]
       /\ kernel_ops = RefOps(1, 0, RefCursor(0, 0, entry_data_file_size))
       /\ payload = RefPayload(0, 0) \o RefPayload(1, 0)
       /\ data_file_size
             = RefCursor(1, 0, RefCursor(0, 0, entry_data_file_size))

\* C12's case: a successful run over several chunks, compressed and
\* uncompressed, of both partitions.
C12_Witness ==
    /\ pc = "Done"
    /\ Len(graph) >= 3
    /\ Len(kernel_ops) >= 1
    /\ graph[1].op.type = "REPLACE_BZ"
    /\ graph[2].op.type = "REPLACE"


\* Every chunk of partition p has been given one operation record, its bytes
\* written.
FullyEmitted(p) ==
    \A off \in ChunkOffsets(p) :
        Cardinality({i \in 1..Len(emitted) :
                        /\ emitted[i].partition = p
                        /\ emitted[i].offset = off
                        /\ emitted[i].written}) = 1

C13_State ==
    /\ \A i, j \in 1..Len(emitted) :
          i < j => emitted[i].partition <= emitted[j].partition
    /\ partition >= 1 => FullyEmitted(0)
    /\ (kernel_ops # <<>> \/ \E i \in 1..Len(waits) : waits[i].partition = 1)
          => partition >= 1
    /\ pc \in {"EndPart", "Open", "Done"} => threads = <<>> /\ processor = <<>>
    /\ pc = "Done" => partition = NumPartitions /\ FullyEmitted(0) /\ FullyEmitted(1)

C13_Step ==
    pc = "Failed"
    => UNCHANGED <<pc, threads, processor, data_file_size, graph, final_order,
                   kernel_ops, payload, emitted, waits>>

\* C13: the root filesystem is processed completely before the kernel: no
\* kernel worker runs and no kernel operation exists until every chunk of
\* the root filesystem is emitted and the queue is empty; Done means every
\* chunk of both partitions is emitted; nothing happens after Failed.
C13_RootfsThenKernel == []C13_State /\ [][C13_Step]_vars

\* C13's case: a kernel worker is being waited on, after the chunks of the
\* root filesystem were emitted.
C13_Witness ==
    /\ pc = "Wait"
    /\ partition = 1
    /\ Len(graph) >= 2
    /\ Len(kernel_ops) >= 1


\* The length of the buffer chosen for the chunk of a history entry.
ChosenLength(e) ==
    IF e.buffer_compressed < e.buffer_in THEN e.buffer_compressed ELSE e.buffer_in

\* All operation records, the root filesystem's and then the kernel's.
AllOps == Ops(0) \o kernel_ops

C14_Step ==
    /\ data_file_size' # data_file_size
          => /\ pc = "Emit"
             /\ Len(emitted') = Len(emitted) + 1
             /\ emitted'[Len(emitted')].written
             /\ Len(payload') = Len(payload) + 1
             /\ payload'[Len(payload')].bytes = ChosenLength(emitted'[Len(emitted')])
             /\ data_file_size' = data_file_size + payload'[Len(payload')].bytes
    /\ (emitted' # emitted /\ ~emitted'[Len(emitted')].written)
          => error' = "write" /\ data_file_size' = data_file_size
    /\ (emitted' # emitted /\ emitted'[Len(emitted')].written)
          => data_file_size' > data_file_size

C14_State ==
    /\ (kernel_ops # <<>> /\ graph # <<>>)
          => kernel_ops[1].data_offset
                = graph[Len(graph)].op.data_offset + graph[Len(graph)].op.data_length
    /\ (kernel_ops # <<>> /\ graph = <<>>)
          => kernel_ops[1].data_offset = entry_data_file_size
    /\ \A i \in 1..Len(AllOps) :
          (AllOps[i].has_data_length
             /\ \A j \in (i + 1)..Len(AllOps) : ~AllOps[j].has_data_length)
          => data_file_size = AllOps[i].data_offset + AllOps[i].data_length
    /\ (\A i \in 1..Len(AllOps) : ~AllOps[i].has_data_length)
          => data_file_size = entry_data_file_size

\* C14: data_file_size changes only in the emitter, only with a successful
\* write and by the length of the buffer written; a failed write leaves it;
\* it runs on from the root filesystem into the kernel, whose first
\* operation starts where the last root filesystem operation ends.
C14_CursorAdvancesByBytesWritten == []C14_State /\ [][C14_Step]_vars

\* C14's case: the first kernel operation is written after a root filesystem
\* that ended with a compressed chunk, shorter than chunk_size.
C14_Witness ==
    /\ kernel_ops # <<>>
    /\ kernel_ops[1].has_data_length
    /\ Len(graph) >= 2
    /\ graph[Len(graph)].op.type = "REPLACE_BZ"
    /\ graph[Len(graph)].op.data_length < config.chunk_size


\* The chunks whose bytes WriteAll has written in full.
SuccessfulWrites == Len(SelectSeq(emitted, LAMBDA e : e.written))

\* C15: an operation record is appended only for a chunk whose bytes were
\* written to the payload, and is complete when appended: in every state,
\* Failed after a short write included, there are as many records as
\* successful chunk writes and each has its type, data_offset, data_length
\* and destination extent.
C15_RecordsOnlyForWrittenChunks ==
    /\ Len(graph) + Len(kernel_ops) = SuccessfulWrites
    /\ Len(final_order) = Len(graph)
    /\ \A i \in 1..Len(AllOps) :
          /\ AllOps[i].type \in {"REPLACE", "REPLACE_BZ"}
          /\ AllOps[i].has_data_offset
          /\ AllOps[i].has_data_length
          /\ Len(AllOps[i].dst_extents) = 1


\* The progress lines of partition p.
LogOf(p) == SelectSeq(log, LAMBDA l : l.partition = p)

\* floor(100 * (offset + raw_size) / partition_size) of a history entry.
ProgressOf(e) ==
    ((e.offset + e.buffer_in) * 100) \div part_sizes(e.partition)

C16_State ==
    /\ \A p \in 0..1 : \A i \in 1..Len(LogOf(p)) :
          /\ LogOf(p)[i].progress <= 100
          /\ \E k \in 1..Len(emitted) :
                /\ emitted[k].partition = p
                /\ emitted[k].written
                /\ ProgressOf(emitted[k]) = LogOf(p)[i].progress
          /\ i > 1 =>
                /\ LogOf(p)[i - 1].progress < LogOf(p)[i].progress
                /\ \/ LogOf(p)[i - 1].progress + 10 <= LogOf(p)[i].progress
                   \/ LogOf(p)[i].progress = 100
    /\ pc \in {"Inner", "Wait", "Emit", "Unwind", "EndPart"}
          => last_progress_update
                = IF LogOf(partition) = <<>> THEN INT_MIN
                  ELSE LogOf(partition)[Len(LogOf(partition))].progress
    /\ \A p \in 0..1 :
          (p < partition /\ part_sizes(p) > 0)
          => Cardinality({i \in 1..Len(LogOf(p)) : LogOf(p)[i].progress = 100}) = 1

C16_Step ==
    /\ Len(log') <= Len(log) + 1
    /\ Len(log') > Len(log)
          => emitted' # emitted /\ emitted'[Len(emitted')].written
    /\ (emitted' # emitted /\ emitted'[Len(emitted')].written)
          => LET pr == ProgressOf(emitted'[Len(emitted')]) IN
             (Len(log') = Len(log) + 1 /\ log'[Len(log')].progress = pr)
             <=> (last_progress_update + 10 <= pr \/ pr = 100)

\* C16: after a chunk is emitted, a progress line is logged exactly when its
\* progress is at least 10 above the partition's last reported value or is
\* 100; the values reported for a partition strictly increase; the last
\* reported value starts afresh with each partition; a partition processed
\* to its end reports 100 once.
C16_ProgressReporting == []C16_State /\ [][C16_Step]_vars

\* C16's case: progress values of the root filesystem were suppressed and
\* others reported, and the kernel's first report is below the 100 the root
\* filesystem ended on.
C16_Witness ==
    /\ Len(LogOf(0)) >= 3
    /\ Len(EmittedOf(0)) > Len(LogOf(0))
    /\ LogOf(0)[Len(LogOf(0))].progress = 100
    /\ LogOf(1) # <<>>
    /\ LogOf(1)[1].progress < 100


\* The chunks of partition p whose bytes were written, in emission order; the
\* k-th of them has the k-th operation record of the partition.
WrittenOf(p) == SelectSeq(EmittedOf(p), LAMBDA e : e.written)

\* The chunk at off is the last one of a partition whose size is not a whole
\* number of chunks.
ShortFinalChunk(p, off) ==
    /\ config.chunk_size > 0
    /\ part_sizes(p) % config.chunk_size # 0
    /\ off + config.chunk_size > part_sizes(p)

\* The extent of the operation of a short final chunk: chunk_size / block_size
\* blocks, more bytes than the chunk carries, ending past the partition's end.
ExtentPastEnd(p, k) ==
    LET e == WrittenOf(p)[k]
        ext == Ops(p)[k].dst_extents[1]
    IN  /\ e.buffer_in = part_sizes(p) - e.offset
        /\ e.buffer_in < config.chunk_size
        /\ ext.num_blocks = config.chunk_size \div config.block_size
        /\ ext.num_blocks * config.block_size > e.buffer_in
        /\ (ext.start_block + ext.num_blocks) * config.block_size > part_sizes(p)

\* C17 as stated: whenever a partition's size is not a whole number of chunks,
\* the final chunk carries the remaining bytes and its extent covers more
\* blocks than those bytes and reaches past the end of the partition.
C17_FinalExtentPastEnd ==
    \A p \in 0..1 : \A k \in 1..Len(WrittenOf(p)) :
        ShortFinalChunk(p, WrittenOf(p)[k].offset) => ExtentPastEnd(p, k)

\* C17: when chunk_size is a multiple of block_size and a partition's size is
\* not a whole number of chunks, the final chunk's worker requests only the
\* remaining bytes, fewer than chunk_size, while the final operation's extent
\* has chunk_size / block_size blocks: it covers more bytes than the chunk
\* carries and reaches past the end of the partition.
C17_AlignedFinalExtentPastEnd ==
    /\ \A i \in 1..Len(threads \o processor) :
          LET w == (threads \o processor)[i] IN
          ShortFinalChunk(partition, w.offset)
          => /\ w.buffer_in = part_sizes(partition) - w.offset
             /\ w.buffer_in < config.chunk_size
    /\ \A p \in 0..1 : \A k \in 1..Len(WrittenOf(p)) :
          (/\ ShortFinalChunk(p, WrittenOf(p)[k].offset)
           /\ config.chunk_size % config.block_size = 0)
          => ExtentPastEnd(p, k)

\* C17's case: the short final chunk of a partition of blocks of 2 bytes has
\* been written, after a full chunk.
C17_Witness ==
    /\ config.block_size = 2
    /\ config.chunk_size % config.block_size = 0
    /\ \E k \in 2..Len(WrittenOf(0)) :
          /\ ShortFinalChunk(0, WrittenOf(0)[k].offset)
          /\ Len(Ops(0)[k].dst_extents) = 1


\* The number of Wait calls that joined a thread, by caller.
JoinedBy(who) ==
    Cardinality({i \in 1..Len(waits) : waits[i].caller = who /\ waits[i].joined})

C18_State ==
    /\ \A i \in 1..Len(threads \o processor) :
          (threads \o processor)[i].thread = "running" => in_fd = "open"
    /\ in_fd = "closed" => StartedNotJoined = 0
    /\ \A i \in 1..Len(waits) :
          waits[i].joined => waits[i].offset \in StartedOffsets(waits[i].partition)
    /\ \A p \in 0..1 : \A off \in StartedOffsets(p) :
          /\ Cardinality(JoinsOf(p, off)) <= 1
          /\ in_fd = "closed" => Cardinality(JoinsOf(p, off)) = 1

C18_Step ==
    (in_fd = "open" /\ in_fd' = "closed")
    => /\ StartedNotJoined = 0
       /\ \A off \in StartedOffsets(partition) :
             Cardinality(JoinsOf(partition, off)) = 1

\* C18: a worker runs only while the partition's input descriptor is open;
\* on every path on which Run leaves a partition (its end, a failed Start, a
\* failed Wait, a failed write) each worker whose thread was started has been
\* joined exactly once, and the descriptor is closed only after all of them
\* have been joined.
C18_JoinedBeforeClose == []C18_State /\ [][C18_Step]_vars

\* C18's case: Run has returned false after a failed write, the descriptor is
\* closed, and threads were joined both by Run and by destructors.
C18_Witness ==
    /\ pc = "Failed"
    /\ error = "write"
    /\ in_fd = "closed"
    /\ JoinedBy("Run") >= 2
    /\ JoinedBy("destructor") >= 2


\* chunk_size is a positive multiple of block_size and the size of partition
\* p a whole number of chunks.
Aligned(p) ==
    /\ config.chunk_size > 0
    /\ config.chunk_size % config.block_size = 0
    /\ part_sizes(p) % config.chunk_size = 0

\* The destination extent of the i-th operation of partition p.
Extent(p, i) == Ops(p)[i].dst_extents[1]

\* C19: when chunk_size is a positive multiple of block_size and the
\* partition's size a whole number of chunks, the destination extents of a
\* partition processed to its end are pairwise disjoint, contiguous in
\* emission order, start at block 0 and cover partition_size / block_size
\* blocks.
C19_ExtentsTileThePartition ==
    \A p \in 0..1 :
        (p < partition /\ Aligned(p)) =>
            /\ \A i \in 1..Len(Ops(p)) : Len(Ops(p)[i].dst_extents) = 1
            /\ Ops(p) # <<>> => Extent(p, 1).start_block = 0
            /\ \A i \in 1..(Len(Ops(p)) - 1) :
                  Extent(p, i).start_block + Extent(p, i).num_blocks
                     = Extent(p, i + 1).start_block
            /\ \A i, j \in 1..Len(Ops(p)) :
                  i < j => Extent(p, i).start_block + Extent(p, i).num_blocks
                              <= Extent(p, j).start_block
            /\ IF Ops(p) = <<>>
               THEN part_sizes(p) \div config.block_size = 0
               ELSE Extent(p, Len(Ops(p))).start_block
                       + Extent(p, Len(Ops(p))).num_blocks
                    = part_sizes(p) \div config.block_size

\* C19's case: both partitions are processed, the root filesystem in two
\* chunks of two blocks each.
C19_Witness ==
    /\ pc = "Done"
    /\ config.chunk_size = 2
    /\ config.block_size = 1
    /\ config.rootfs_size = 4
    /\ config.kernel_size = 2
    /\ Len(graph) = 2
    /\ Extent(0, 2).start_block = 2


C20_State ==
    /\ pc # "Undefined"
    /\ pc = "Wait" => /\ processor # <<>>
                      /\ processor[1].thread # "null"

C20_Step ==
    /\ Len(threads') > Len(threads)
          => \/ /\ threads'[Len(threads')].thread # "null"
                /\ bytes_left' < bytes_left
                /\ bytes_left > 0
             \/ pc' = "Unwind"
    /\ (pc = "Wait" /\ pc' # pc) => pc' \in {"Emit", "Unwind"}
    /\ (pc = "Emit" /\ pc' # pc)
          => \/ /\ Len(emitted') = Len(emitted) + 1
                /\ emitted'[Len(emitted')].written
                /\ pc' \in {"Inner", "EndPart"}
             \/ pc' = "Unwind"

\* C20: when Run keeps running and every started worker finishes, Run reaches
\* Done or Failed: each iteration of the outer loop emits one chunk or fails,
\* bytes_left strictly decreases with every chunk scheduled, and Run never
\* takes the front of an empty queue nor waits on a worker that was not
\* started.
C20_RunTerminates ==
    /\ <>(pc \in {"Done", "Failed"})
    /\ []C20_State
    /\ [][C20_Step]_vars

\* C20's case: Run has ended after scheduling and emitting several chunks of
\* both partitions.
C20_Witness ==
    /\ pc \in {"Done", "Failed"}
    /\ Len(EmittedOf(0)) >= 3
    /\ Len(EmittedOf(1)) >= 1
    /\ bytes_left <= 0

====
